---- MODULE Spec2Model ----
(***************************************************************************)
(* Model of Task-2/generate_report.py: the sales-report pipeline.          *)
(*                                                                         *)
(*   read_and_analyze_data(file_path)   lines 19-66                         *)
(*   generate_sales_report(...)         lines 68-122                        *)
(*   the __main__ driver                lines 124-142                       *)
(*                                                                         *)
(* A CSV cell is a sequence of characters; pd.to_numeric(errors='coerce')  *)
(* turns it into a float, NaN when it does not parse.  A float is the      *)
(* record [nan, val]; amounts are whole numbers.  A Product is a string,    *)
(* "NaN" when the cell is missing (read_csv loads it as NaN).              *)
(***************************************************************************)
EXTENDS Integers, Sequences, FiniteSets, TLC

VARIABLES
    file,                \* sales_data.csv on disk
    pc,                  \* position of the driver / of the caller
    df,                  \* the frame read_and_analyze_data aggregates (after line 43)
    product_summary,     \* result of the analysis
    total_revenue,
    top_selling_product,
    exc,                 \* the exception that escaped the last call, "none" if none
    console,             \* diagnostic lines printed so far
    rendered,            \* generate_sales_report has been invoked
    doc,                 \* elements laid out on the PDF object
    saved,               \* pdf.output wrote the file
    writable,            \* the output path can be written
    runs,                \* number of runs of the analysis started
    prev                 \* result of the previous run of the analysis

vars == <<file, pc, df, product_summary, total_revenue, top_selling_product,
          exc, console, rendered, doc, saved, writable, runs, prev>>

----------------------------------------------------------------------------
(* Bounds *)

MaxRows == 2

MaxRuns == 2

----------------------------------------------------------------------------
(* Values *)

NaN == [nan |-> TRUE, val |-> 0]

Num(n) == [nan |-> FALSE, val |-> n]

NoProduct == "NaN"

Alphabet == <<"A", "B">>

Products == {Alphabet[i] : i \in DOMAIN Alphabet}

\* position of a product identifier in the collation order of strings
Ord(p) == CHOOSE i \in DOMAIN Alphabet : Alphabet[i] = p

Digits == <<"0", "1", "2", "3", "4", "5", "6", "7", "8", "9">>

IsDigit(c) == \E i \in DOMAIN Digits : Digits[i] = c

DigitVal(c) == (CHOOSE i \in DOMAIN Digits : Digits[i] = c) - 1

RECURSIVE Decimal(_)
Decimal(t) ==
    IF t = <<>> THEN 0
    ELSE 10 * Decimal(SubSeq(t, 1, Len(t) - 1)) + DigitVal(t[Len(t)])

\* pd.to_numeric(..., errors='coerce') on one cell
ToNumeric_NoCoerce(t) ==
    IF t # <<>> /\ \A i \in DOMAIN t : IsDigit(t[i]) THEN Num(Decimal(t)) ELSE Num(0)

ToNumeric(t) ==
    IF t # <<>> /\ \A i \in DOMAIN t : IsDigit(t[i]) THEN Num(Decimal(t)) ELSE NaN

----------------------------------------------------------------------------
(* Input files *)

Columns == {"Product", "Quantity", "UnitPrice"}

CellTexts == {<<"1">>, <<"2">>, <<"x">>, <<>>}

Records == [Product : Products \cup {NoProduct}, Quantity : CellTexts, UnitPrice : CellTexts]

RowsUpTo(n) == UNION {[1..k -> Records] : k \in 0..n}

Files ==
    {[kind |-> k, columns |-> {}, rows |-> <<>>] : k \in {"missing", "malformed"}}
    \cup {[kind |-> "table", columns |-> Columns, rows |-> r] : r \in RowsUpTo(MaxRows)}
    \cup {[kind |-> "table", columns |-> c, rows |-> r] :
             c \in (SUBSET Columns) \ {Columns}, r \in RowsUpTo(1)}

----------------------------------------------------------------------------
(* read_and_analyze_data *)

\* every exception class the code can meet derives from Exception
ExceptionClasses == {"FileNotFoundError", "ParserError", "KeyError", "ValueError", "OSError"}

\* the exception raised by lines 33-49 on file f, "none" if none
Raised(f) ==
    IF f.kind = "missing" THEN "FileNotFoundError"
    ELSE IF f.kind = "malformed" THEN "ParserError"
    ELSE IF ~(Columns \subseteq f.columns) THEN "KeyError"
    ELSE "none"

\* the except clauses of lines 61 and 64
Caught_OnlyNotFound(e) == e = "FileNotFoundError"

Caught(e) == e = "FileNotFoundError" \/ e \in ExceptionClasses

\* lines 36-37: both numeric columns coerced
Coerce(rows) ==
    [i \in DOMAIN rows |->
        [Product   |-> rows[i].Product,
         Quantity  |-> ToNumeric(rows[i].Quantity),
         UnitPrice |-> ToNumeric(rows[i].UnitPrice)]]

Complete_QuantityOnly(r) == ~r.Quantity.nan

\* line 40: a row is kept when neither Quantity nor UnitPrice is NaN
Complete(r) == ~r.Quantity.nan /\ ~r.UnitPrice.nan

\* line 40: dropna(subset=['Quantity', 'UnitPrice'])
DropNa(d) == SelectSeq(d, Complete)

\* line 43: TotalPrice = Quantity * UnitPrice
WithTotalPrice(d) ==
    [i \in DOMAIN d |->
        [Product    |-> d[i].Product,
         Quantity   |-> d[i].Quantity.val,
         UnitPrice  |-> d[i].UnitPrice.val,
         TotalPrice |-> d[i].Quantity.val * d[i].UnitPrice.val]]

RECURSIVE SumQuantity(_)
SumQuantity(d) == IF d = <<>> THEN 0 ELSE d[1].Quantity + SumQuantity(Tail(d))

RECURSIVE SumTotalPrice(_)
SumTotalPrice(d) == IF d = <<>> THEN 0 ELSE d[1].TotalPrice + SumTotalPrice(Tail(d))

\* the group keys of groupby('Product'): rows whose key is NaN are left out
\* (dropna=True is the default), keys come sorted (sort=True is the default)
GroupKeys(d) == {d[i].Product : i \in DOMAIN d} \ {NoProduct}

RECURSIVE SortedKeys(_)
SortedKeys(K) ==
    IF K = {} THEN <<>>
    ELSE LET m == CHOOSE k \in K : \A j \in K : Ord(k) <= Ord(j)
         IN  <<m>> \o SortedKeys(K \ {m})

RECURSIVE InsertionKeys(_)
InsertionKeys(d) ==
    IF d = <<>> THEN <<>>
    ELSE LET rest == InsertionKeys(SubSeq(d, 1, Len(d) - 1))
             k    == d[Len(d)].Product
         IN  IF k = NoProduct \/ \E i \in DOMAIN rest : rest[i] = k
             THEN rest ELSE Append(rest, k)

Group(d, k) == SelectSeq(d, LAMBDA r : r.Product = k)

SummaryRow(d, k) ==
    [Product       |-> k,
     TotalQuantity |-> Num(SumQuantity(Group(d, k))),
     TotalRevenue  |-> Num(SumTotalPrice(Group(d, k)))]

\* lines 46-49: groupby('Product').agg(...).reset_index()
GroupBy_Unsorted(d) ==
    LET keys == InsertionKeys(d)
    IN  [i \in DOMAIN keys |-> SummaryRow(d, keys[i])]

GroupBy(d) ==
    LET keys == SortedKeys(GroupKeys(d))
    IN  [i \in DOMAIN keys |-> SummaryRow(d, keys[i])]

\* line 57: idxmax() is the first index holding the maximum
IdxMax_Last(s) ==
    CHOOSE i \in DOMAIN s :
        /\ \A j \in DOMAIN s : s[j].TotalRevenue.val <= s[i].TotalRevenue.val
        /\ \A j \in DOMAIN s : s[j].TotalRevenue.val = s[i].TotalRevenue.val => j <= i

IdxMax(s) ==
    CHOOSE i \in DOMAIN s :
        /\ \A j \in DOMAIN s : s[j].TotalRevenue.val <= s[i].TotalRevenue.val
        /\ \A j \in DOMAIN s : s[j].TotalRevenue.val = s[i].TotalRevenue.val => i <= j

\* lines 55-57
TopSellingProduct(s) == IF s # <<>> THEN s[IdxMax(s)].Product ELSE ""

EmptyResult(e, msg) ==
    [summary |-> <<>>, total |-> 0, top |-> "", df |-> <<>>, exc |-> e, console |-> msg]

\* lines 32-66: the whole function on file f
ReadAndAnalyzeData(f) ==
    LET e == Raised(f) IN
    IF e = "none"
    THEN LET d == WithTotalPrice(DropNa(Coerce(f.rows)))
             s == GroupBy(d)
         IN  [summary |-> s, total |-> SumTotalPrice(d), top |-> TopSellingProduct(s),
              df |-> d, exc |-> "none", console |-> <<>>]
    ELSE IF ~Caught(e) THEN EmptyResult(e, <<>>)
    ELSE IF e = "FileNotFoundError" THEN EmptyResult("none", <<"file was not found">>)
    ELSE EmptyResult("none", <<"error during data reading or analysis">>)

----------------------------------------------------------------------------
(* generate_sales_report *)

\* line 111: int(row['TotalQuantity']) raises ValueError on NaN
RowRaises(r) == r.TotalQuantity.nan

\* lines 110-112: the three cells of one table row
DataRow(r) ==
    [kind |-> "data_row", Product |-> r.Product,
     quantity |-> r.TotalQuantity.val, revenue |-> r.TotalRevenue]

\* the rows laid out by the loop of lines 109-112 before a row raises
RECURSIVE DataRows(_)
DataRows(s) ==
    IF s = <<>> \/ RowRaises(s[1]) THEN <<>>
    ELSE <<DataRow(s[1])>> \o DataRows(Tail(s))

TableHeader == [kind |-> "table_header"]

NoDataLine == [kind |-> "no_data"]

\* lines 99-115: table or "no data" line
SalesSection_Both(s) ==
    IF s # <<>> THEN <<TableHeader>> \o DataRows(s) ELSE <<TableHeader, NoDataLine>>

SalesSection(s) ==
    IF s # <<>> THEN <<TableHeader>> \o DataRows(s) ELSE <<NoDataLine>>

\* lines 78-115: everything laid out before the file is written
Layout(s, total, top) ==
    << [kind |-> "heading", text |-> "Executive Summary"],
       [kind |-> "paragraph", total |-> total, top |-> top],
       [kind |-> "heading", text |-> "Product-wise Sales Performance"] >>
    \o SalesSection(s)

\* the exception lines 78-115 raise, outside any try
LayoutRaised(s) == IF \E i \in DOMAIN s : RowRaises(s[i]) THEN "ValueError" ELSE "none"

\* lines 68-122: the whole function; w says whether pdf.output can write
GenerateSalesReport(s, total, top, w) ==
    LET e == LayoutRaised(s) IN
    [doc     |-> Layout(s, total, top),
     exc     |-> e,
     saved   |-> e = "none" /\ w,
     console |-> IF e # "none" THEN <<>>
                 ELSE IF w THEN <<"report successfully generated">>
                 ELSE <<"error saving PDF report">>]

----------------------------------------------------------------------------
(* The driver, lines 124-142 *)

NoResult == [summary |-> <<>>, total |-> 0, top |-> ""]

Init ==
    /\ file \in Files
    /\ pc = "start"
    /\ df = <<>>
    /\ product_summary = <<>>
    /\ total_revenue = 0
    /\ top_selling_product = ""
    /\ exc = "none"
    /\ console = <<>>
    /\ rendered = FALSE
    /\ doc = <<>>
    /\ saved = FALSE
    /\ writable = TRUE
    /\ runs = 0
    /\ prev = NoResult

\* line 130: product_summary, total_revenue, top_selling_product = read_and_analyze_data(csv_file)
Analyze_Accumulating ==
    /\ pc = "start"
    /\ LET r == ReadAndAnalyzeData(file) IN
        /\ df' = r.df
        /\ product_summary' = r.summary
        /\ total_revenue' = total_revenue + r.total
        /\ top_selling_product' = r.top
        /\ exc' = r.exc
        /\ console' = console \o r.console
        /\ pc' = IF r.exc = "none" THEN "analyzed" ELSE "crashed"
    /\ runs' = runs + 1
    /\ UNCHANGED <<file, rendered, doc, saved, writable, prev>>

Analyze ==
    /\ pc = "start"
    /\ LET r == ReadAndAnalyzeData(file) IN
        /\ df' = r.df
        /\ product_summary' = r.summary
        /\ total_revenue' = r.total
        /\ top_selling_product' = r.top
        /\ exc' = r.exc
        /\ console' = console \o r.console
        /\ pc' = IF r.exc = "none" THEN "analyzed" ELSE "crashed"
    /\ runs' = runs + 1
    /\ UNCHANGED <<file, rendered, doc, saved, writable, prev>>

\* lines 132-139: the summary is not empty, print it and go on to the report
MainReport ==
    /\ pc = "analyzed"
    /\ product_summary # <<>>
    /\ console' = console \o <<"Data Analysis Summary", "Generating PDF report">>
    /\ pc' = "render"
    /\ UNCHANGED <<file, df, product_summary, total_revenue, top_selling_product,
                   exc, rendered, doc, saved, writable, runs, prev>>

\* lines 141-142: the summary is empty
MainSkip_Renders ==
    /\ pc = "analyzed"
    /\ product_summary = <<>>
    /\ console' = Append(console, "Generating PDF report")
    /\ pc' = "render"
    /\ UNCHANGED <<file, df, product_summary, total_revenue, top_selling_product,
                   exc, rendered, doc, saved, writable, runs, prev>>

MainSkip ==
    /\ pc = "analyzed"
    /\ product_summary = <<>>
    /\ console' = Append(console, "Could not generate report due to missing or empty data.")
    /\ pc' = "done"
    /\ UNCHANGED <<file, df, product_summary, total_revenue, top_selling_product,
                   exc, rendered, doc, saved, writable, runs, prev>>

\* line 140, or any call of generate_sales_report: lines 68-122
GenerateReport ==
    /\ pc = "render"
    /\ \E w \in BOOLEAN :
        LET r == GenerateSalesReport(product_summary, total_revenue, top_selling_product, w) IN
        /\ writable' = w
        /\ rendered' = TRUE
        /\ doc' = r.doc
        /\ saved' = r.saved
        /\ exc' = r.exc
        /\ console' = console \o r.console
        /\ pc' = IF r.exc = "none" THEN "done" ELSE "crashed"
    /\ UNCHANGED <<file, df, product_summary, total_revenue, top_selling_product, runs, prev>>

\* the program is run once more on the same file
RunAgain ==
    /\ pc = "done"
    /\ runs < MaxRuns
    /\ prev' = [summary |-> product_summary, total |-> total_revenue, top |-> top_selling_product]
    /\ pc' = "start"
    /\ console' = <<>>
    /\ rendered' = FALSE
    /\ doc' = <<>>
    /\ saved' = FALSE
    /\ writable' = TRUE
    /\ UNCHANGED <<file, df, product_summary, total_revenue, top_selling_product,
                   exc, runs>>

Next == Analyze \/ MainReport \/ MainSkip \/ GenerateReport \/ RunAgain

Spec == Init /\ [][Next]_vars

----------------------------------------------------------------------------
(* generate_sales_report called on its own, arguments from bounded sets *)

Floats == {Num(1), Num(2), NaN}

SummaryRows == [Product : Products, TotalQuantity : Floats, TotalRevenue : {Num(1), Num(2)}]

Summaries == UNION {[1..k -> SummaryRows] : k \in 0..MaxRows}

InitRender ==
    /\ file = [kind |-> "missing", columns |-> {}, rows |-> <<>>]
    /\ pc = "render"
    /\ df = <<>>
    /\ product_summary \in Summaries
    /\ total_revenue \in {0, 3}
    /\ top_selling_product \in {"", "A"}
    /\ exc = "none"
    /\ console = <<>>
    /\ rendered = FALSE
    /\ doc = <<>>
    /\ saved = FALSE
    /\ writable = TRUE
    /\ runs = 0
    /\ prev = NoResult

NextRender == GenerateReport

SpecRender == InitRender /\ [][NextRender]_vars

----------------------------------------------------------------------------
(* Vocabulary of the properties, stated on the input file itself *)

\* the call of read_and_analyze_data at line 130 has just ended
Analysed == pc \in {"analyzed", "crashed"} /\ ~rendered

\* the file loads and has the three columns
TableOK == file.kind = "table" /\ Columns \subseteq file.columns

NumericText(t) == t # <<>> /\ \A i \in DOMAIN t : IsDigit(t[i])

ValidIdx == {i \in DOMAIN file.rows :
                NumericText(file.rows[i].Quantity) /\ NumericText(file.rows[i].UnitPrice)}

InvalidIdx == {i \in DOMAIN file.rows :
                ~NumericText(file.rows[i].Quantity) \/ ~NumericText(file.rows[i].UnitPrice)}

QtyAt(i) == Decimal(file.rows[i].Quantity)

RevAt(i) == Decimal(file.rows[i].Quantity) * Decimal(file.rows[i].UnitPrice)

RECURSIVE QtyOver(_)
QtyOver(S) == IF S = {} THEN 0 ELSE LET i == CHOOSE j \in S : TRUE IN QtyAt(i) + QtyOver(S \ {i})

RECURSIVE RevOver(_)
RevOver(S) == IF S = {} THEN 0 ELSE LET i == CHOOSE j \in S : TRUE IN RevAt(i) + RevOver(S \ {i})

ValidOf(p) == {i \in ValidIdx : file.rows[i].Product = p}

RECURSIVE SummaryRevenue(_)
SummaryRevenue(s) == IF s = <<>> THEN 0 ELSE s[1].TotalRevenue.val + SummaryRevenue(Tail(s))

\* the i-th valid row of the file, in file order
RECURSIVE NthValid(_, _)
NthValid(S, n) ==
    LET m == CHOOSE i \in S : \A j \in S : i <= j
    IN  IF n = 1 THEN m ELSE NthValid(S \ {m}, n - 1)

\* the part of the document after the two headings and the paragraph
Section == SubSeq(doc, 4, Len(doc))

----------------------------------------------------------------------------
(* Properties *)

\* C1: whenever the analysis processed a table without error, total_revenue
\* equals the sum of TotalRevenue over the rows of the Product Summary
\* (tables with a retained record whose Product is missing included).
C1_TotalIsSummarySum ==
    (Analysed /\ TableOK) => total_revenue = SummaryRevenue(product_summary)

\* C2: when the file is missing, malformed or lacks one of the columns,
\* read_and_analyze_data lets no exception reach its caller and returns the
\* empty summary, total_revenue 0 and top_selling_product "".
C2_FailuresGiveEmptyResult ==
    (Analysed /\ ~TableOK) =>
        /\ pc # "crashed"
        /\ exc = "none"
        /\ product_summary = <<>>
        /\ total_revenue = 0
        /\ top_selling_product = ""
        /\ pc = "analyzed" => console # <<>>

C2_Witness ==
    /\ pc = "analyzed"
    /\ file.kind = "table"
    /\ "Quantity" \notin file.columns
    /\ console = <<"error during data reading or analysis">>

\* C3: generate_sales_report never raises to its caller, whatever summary,
\* total_revenue, top_selling_product and output path it is given.
C3_RendererNeverRaises ==
    rendered => (pc # "crashed" /\ exc = "none")

\* C4 as claimed: a run whose input yields zero retained records still invokes
\* the renderer and produces the document with the "no data" line.
C4_EmptyRunStillRenders ==
    (pc = "done" /\ TableOK /\ ValidIdx = {}) =>
        (rendered /\ \E i \in DOMAIN doc : doc[i] = NoDataLine)

\* C4 as amended: a run whose input yields zero retained records ends without
\* invoking the renderer: the driver prints that no report could be generated,
\* nothing is laid out and no file is written.
C4_EmptyRunSkipsRenderer ==
    (pc = "done" /\ TableOK /\ ValidIdx = {}) =>
        /\ product_summary = <<>>
        /\ ~rendered
        /\ doc = <<>>
        /\ ~saved
        /\ console # <<>>
        /\ console[Len(console)] = "Could not generate report due to missing or empty data."

C4_Witness ==
    /\ pc = "done"
    /\ TableOK
    /\ file.rows # <<>>
    /\ ValidIdx = {}
    /\ product_summary = <<>>

\* C5: the frame that is aggregated holds exactly the records whose Quantity
\* and UnitPrice both parse as numeric, in file order; the records with a
\* non-numeric or missing Quantity or UnitPrice add nothing to any Product
\* Summary row nor to total_revenue; retained plus dropped is the number of
\* input records.
C5_OnlyNumericRecordsAggregated ==
    (Analysed /\ TableOK) =>
        /\ Len(df) = Cardinality(ValidIdx)
        /\ Len(df) + Cardinality(InvalidIdx) = Len(file.rows)
        /\ \A n \in DOMAIN df :
              LET i == NthValid(ValidIdx, n) IN
              /\ df[n].Product = file.rows[i].Product
              /\ df[n].Quantity = QtyAt(i)
              /\ df[n].TotalPrice = RevAt(i)
        /\ total_revenue = RevOver(ValidIdx)
        /\ \A k \in DOMAIN product_summary :
              /\ product_summary[k].TotalQuantity = Num(QtyOver(ValidOf(product_summary[k].Product)))
              /\ product_summary[k].TotalRevenue = Num(RevOver(ValidOf(product_summary[k].Product)))

C5_Witness ==
    /\ pc = "analyzed"
    /\ TableOK
    /\ Len(file.rows) = 2
    /\ ValidIdx = {2}
    /\ file.rows[1].Quantity = <<"2">>
    /\ file.rows[1].UnitPrice = <<>>
    /\ file.rows[1].Product = file.rows[2].Product
    /\ Len(df) = 1
    /\ Len(product_summary) = 1

\* C6: the Product Summary has exactly one row per distinct Product value of
\* the retained records, each with the sums of Quantity and of
\* Quantity*UnitPrice over the retained records of that Product, in ascending
\* order of Product whatever the order of the input rows.
C6_OneSortedRowPerProduct ==
    (Analysed /\ TableOK) =>
        /\ {product_summary[k].Product : k \in DOMAIN product_summary}
              = {file.rows[i].Product : i \in ValidIdx} \ {NoProduct}
        /\ \A k, l \in DOMAIN product_summary :
              k < l => Ord(product_summary[k].Product) < Ord(product_summary[l].Product)
        /\ \A k \in DOMAIN product_summary :
              /\ product_summary[k].TotalQuantity = Num(QtyOver(ValidOf(product_summary[k].Product)))
              /\ product_summary[k].TotalRevenue = Num(RevOver(ValidOf(product_summary[k].Product)))

C6_Witness ==
    /\ pc = "analyzed"
    /\ TableOK
    /\ Len(file.rows) = 2
    /\ ValidIdx = {1, 2}
    /\ file.rows[1].Product = "B"
    /\ file.rows[2].Product = "A"
    /\ Len(product_summary) = 2
    /\ product_summary[1].Product = "A"
    /\ product_summary[2].Product = "B"

\* C7: with a non-empty Product Summary, top_selling_product is the Product of
\* a row of the summary whose TotalRevenue is the maximum, the first such row
\* in the summary's order; with an empty summary it is "".
C7_TopIsFirstMaximum ==
    Analysed =>
        IF product_summary = <<>> THEN top_selling_product = ""
        ELSE \E i \in DOMAIN product_summary :
                /\ product_summary[i].Product = top_selling_product
                /\ \A j \in DOMAIN product_summary :
                      product_summary[j].TotalRevenue.val <= product_summary[i].TotalRevenue.val
                /\ \A j \in DOMAIN product_summary :
                      j < i => product_summary[j].TotalRevenue.val < product_summary[i].TotalRevenue.val

C7_Witness ==
    /\ pc = "analyzed"
    /\ Len(product_summary) = 2
    /\ product_summary[1].TotalRevenue = product_summary[2].TotalRevenue
    /\ top_selling_product = "A"

\* C8: a table with no rows, or whose rows all have a non-numeric Quantity or
\* UnitPrice, gives an empty Product Summary, total_revenue 0 and
\* top_selling_product "".
C8_NoValidRowsGiveEmptyResult ==
    (Analysed /\ TableOK /\ ValidIdx = {}) =>
        /\ product_summary = <<>>
        /\ total_revenue = 0
        /\ top_selling_product = ""
        /\ exc = "none"

C8_Witness ==
    /\ pc = "analyzed"
    /\ TableOK
    /\ file.rows = <<[Product |-> "A", Quantity |-> <<"x">>, UnitPrice |-> <<"1">>]>>
    /\ product_summary = <<>>

C10_TableOrNoDataLine ==
    rendered =>
        IF product_summary = <<>> THEN Section = <<NoDataLine>>
        ELSE /\ Section # <<>>
             /\ Section[1] = TableHeader
             /\ \A i \in 2..Len(Section) :
                   /\ i - 1 \in DOMAIN product_summary
                   /\ Section[i].kind = "data_row"
                   /\ Section[i].Product = product_summary[i - 1].Product
                   /\ Section[i].quantity = product_summary[i - 1].TotalQuantity.val
                   /\ Section[i].revenue = product_summary[i - 1].TotalRevenue
             /\ pc = "done" => Len(Section) = 1 + Len(product_summary)

C10_Witness ==
    /\ rendered
    /\ pc = "done"
    /\ Len(product_summary) = 2
    /\ product_summary[1].Product = "B"
    /\ product_summary[2].Product = "A"
    /\ Len(Section) = 3

====
